---- MODULE Spec2Model ----
(***************************************************************************)
(* Model of pkg/image/build.go: the Build pipeline that turns a model      *)
(* declaration into a labelled container image, with the optional          *)
(* separate weights image, the .dockerignore backup/write/restore helpers  *)
(* and the label assembly.                                                  *)
(*                                                                          *)
(* A file is a record [exists, bytes]; bytes is a sequence of chunks, so    *)
(* that concatenation and byte equality are sequence concatenation and      *)
(* sequence equality.  Each Build invocation is a record of Build's         *)
(* arguments and locals plus its position (pc) and the log of the steps     *)
(* it has executed.  Every call that Build makes on a collaborator          *)
(* (generator, build engine, schema tools, registry) is one step whose      *)
(* outcome (ok or error) is chosen nondeterministically.  The file helpers  *)
(* have the outcomes that the presence or absence of the two files          *)
(* decides; other operating-system errors of Stat, Rename, ReadFile and     *)
(* WriteFile on .dockerignore are not modelled.  The arguments schemaFile   *)
(* and annotations, which Build reads at one place only, are drawn at the   *)
(* step that reads them.                                                    *)
(***************************************************************************)
EXTENDS Integers, Sequences, FiniteSets, TLC

\* ------------------------------------------------------------------ bounds
\* Number of Build invocations in one behaviour.
MaxRuns == 2
\* Largest number of layers of the remote base image.
MaxLayers == 2

\* ------------------------------------------------------------------ files
NoFile == [exists |-> FALSE, bytes |-> <<>>]
File(bytes) == [exists |-> TRUE, bytes |-> bytes]

\* dockerfile.DockerignoreHeader, the body written for the weights image.
DockerignoreHeader == <<"DockerignoreHeader">>
\* The exclusion body the generator returns for the runner image.
RunnerDockerignore == <<"DockerignoreHeader", "weights">>
\* What the user may have in .dockerignore before the first run.
UserDockerignores == {NoFile, File(<<"*.tmp">>), File(<<".cog">>)}

\* dockerignore.CreateMatcher(dir) + matcher.MatchesPath(".cog"): nil matcher
\* when there is no file, else true when a pattern of the file matches .cog.
MatchesCog(f) == f.exists /\ \E i \in 1..Len(f.bytes) : f.bytes[i] = ".cog"

\* checkCompatibleDockerIgnore: TRUE when it returns nil.
checkCompatibleDockerIgnore(f) == ~MatchesCog(f)

\* backupDockerignore: nothing to do when .dockerignore is absent, else
\* rename .dockerignore to .dockerignore.cog.bak (replacing what is there).
backupDockerignore(ig, bak) ==
    IF ~ig.exists
    THEN [dockerignore |-> ig, backup |-> bak, ok |-> TRUE]
    ELSE [dockerignore |-> NoFile, backup |-> ig, ok |-> TRUE]

\* Variant: contents are appended to the exclusion file that is there.
writeDockerignore_Append(ig, bak, contents) ==
    [dockerignore |-> File(IF ig.exists THEN ig.bytes \o <<"\n">> \o contents
                           ELSE IF bak.exists
                           THEN bak.bytes \o <<"\n">> \o contents
                           ELSE contents),
     backup |-> bak, ok |-> TRUE]

\* writeDockerignore: the backup's bytes, "\n", then contents when a backup
\* exists; contents alone otherwise.
writeDockerignore(ig, bak, contents) ==
    [dockerignore |-> File(IF bak.exists
                           THEN bak.bytes \o <<"\n">> \o contents
                           ELSE contents),
     backup |-> bak, ok |-> TRUE]

\* makeDockerignoreForWeightsImage: backup, then write the header.
makeDockerignoreForWeightsImage(ig, bak) ==
    LET b == backupDockerignore(ig, bak)
    IN  IF ~b.ok THEN b
        ELSE writeDockerignore(b.dockerignore, b.backup, DockerignoreHeader)

\* Variant: the written exclusion file and the backup are left in place.
restoreDockerignore_Nothing(ig, bak) ==
    [dockerignore |-> ig, backup |-> bak, ok |-> TRUE]

\* restoreDockerignore: os.Remove fails when .dockerignore is absent; then
\* the backup, when there is one, is renamed back.
restoreDockerignore(ig, bak) ==
    IF ~ig.exists
    THEN [dockerignore |-> ig, backup |-> bak, ok |-> FALSE]
    ELSE IF ~bak.exists
    THEN [dockerignore |-> NoFile, backup |-> bak, ok |-> TRUE]
    ELSE [dockerignore |-> bak, backup |-> NoFile, ok |-> TRUE]

\* ---------------------------------------------------------------- manifests
\* A weights manifest is a set of <<path, hash>> pairs.
Trees == {{<<"weights.bin", 1>>}, {<<"weights.bin", 2>>}}
NoManifest == [found |-> FALSE, manifest |-> {}]
Manifest(m) == [found |-> TRUE, manifest |-> m]
\* weights.Manifest.Equal: same paths with the same hashes.
Equal(m, cached) == m = cached.manifest
\* Variant: the comparison with the cached manifest is inverted.
changed_Inverted(m, cached) == ~cached.found \/ Equal(m, cached)

\* changed := cachedManifest == nil || !weightsManifest.Equal(cachedManifest)
changed(m, cached) == ~cached.found \/ ~Equal(m, cached)

\* ------------------------------------------------------------------- labels
CogVersionLabelKey == "run.cog.version"
CogConfigLabelKey == "run.cog.config"
SchemaLabelKey == "run.cog.openapi_schema"
PipFreezeLabelKey == "run.cog.pip_freeze"
HasInitLabelKey == "run.cog.has_init"
BaseImageNameLabelKey == "run.cog.cog-base-image-name"
LastLayerShaLabelKey == "run.cog.cog-base-image-last-layer-sha"
LastLayerIdxLabelKey == "run.cog.cog-base-image-last-layer-idx"
RevisionLabelKey == "org.opencontainers.image.revision"
VersionLabelKey == "org.opencontainers.image.version"

EmptyMap == [k \in {} |-> ""]
Put(m, k, v) == [x \in DOMAIN m \cup {k} |-> IF x = k THEN v ELSE m[x]]

\* ------------------------------------------------------------------- state
Procs == {1, 2}
ImageNames == {"model", "other"}

VARIABLES
    dockerignore,     \* the file .dockerignore
    backup,           \* the file .dockerignore.cog.bak
    manifestFile,     \* the file .cog/cache/weights_manifest.json
    bundledSchema,    \* the file .cog/openapi_schema.json
    bundledPy,        \* the file .cog/schema.py
    images,           \* build engine store: image name -> manifest it holds
    tree,             \* weights manifest of the current source tree
    runs,             \* Build invocations started so far
    build             \* per caller: arguments, locals and position of Build

vars == <<dockerignore, backup, manifestFile, bundledSchema, bundledPy,
          images, tree, runs, build>>

files == <<dockerignore, backup, manifestFile, bundledSchema, bundledPy,
           images>>


\* ------------------------------------------------------- provenance lookup
\* isGitWorkTree: the probe's error means "no"; else its trimmed output
\* must be the word true.
isGitWorkTree(probe) == ~probe.err /\ probe.out = "true"

\* A version-control subprocess that a lookup ran, with what it returned.
Subprocess(cmd, result) == [cmd |-> cmd, err |-> result.err, out |-> result.out]
ProbeCmd == "git rev-parse --is-inside-work-tree"

\* Variant: a variable that is set but empty is taken as the value.
gitHead_EmptyEnv(env, probe, sub) ==
    IF env.set
    THEN [v |-> env.v, err |-> FALSE, calls |-> <<>>]
    ELSE IF isGitWorkTree(probe)
    THEN [v |-> IF sub.err THEN "" ELSE sub.out, err |-> sub.err,
          calls |-> <<Subprocess(ProbeCmd, probe), Subprocess("git rev-parse HEAD", sub)>>]
    ELSE [v |-> "", err |-> TRUE, calls |-> <<Subprocess(ProbeCmd, probe)>>]

\* gitHead: GITHUB_SHA when set and non-empty, else `git rev-parse HEAD`
\* inside a work tree, else an error.  calls are the subprocesses it ran.
gitHead(env, probe, sub) ==
    IF env.set /\ env.v # ""
    THEN [v |-> env.v, err |-> FALSE, calls |-> <<>>]
    ELSE IF isGitWorkTree(probe)
    THEN IF sub.err
         THEN [v |-> "", err |-> TRUE,
               calls |-> <<Subprocess(ProbeCmd, probe),
                           Subprocess("git rev-parse HEAD", sub)>>]
         ELSE [v |-> sub.out, err |-> FALSE,
               calls |-> <<Subprocess(ProbeCmd, probe),
                           Subprocess("git rev-parse HEAD", sub)>>]
    ELSE [v |-> "", err |-> TRUE, calls |-> <<Subprocess(ProbeCmd, probe)>>]

\* gitTag: GITHUB_REF_NAME when set and non-empty, else
\* `git describe --tags --dirty` inside a work tree, else an error.
gitTag(env, probe, sub) ==
    IF env.set /\ env.v # ""
    THEN [v |-> env.v, err |-> FALSE, calls |-> <<>>]
    ELSE IF isGitWorkTree(probe)
    THEN IF sub.err
         THEN [v |-> "", err |-> TRUE,
               calls |-> <<Subprocess(ProbeCmd, probe),
                           Subprocess("git describe --tags --dirty", sub)>>]
         ELSE [v |-> sub.out, err |-> FALSE,
               calls |-> <<Subprocess(ProbeCmd, probe),
                           Subprocess("git describe --tags --dirty", sub)>>]
    ELSE [v |-> "", err |-> TRUE, calls |-> <<Subprocess(ProbeCmd, probe)>>]

\* os.LookupEnv outcomes, probe outcomes and subprocess outcomes.
EnvValues == {[set |-> FALSE, v |-> ""], [set |-> TRUE, v |-> ""],
              [set |-> TRUE, v |-> "from-env"]}
ProbeResults == {[err |-> TRUE, out |-> ""], [err |-> FALSE, out |-> "true"],
                 [err |-> FALSE, out |-> "false"]}
SubResults == {[err |-> TRUE, out |-> ""], [err |-> FALSE, out |-> ""],
               [err |-> FALSE, out |-> "from-git"]}

\* ------------------------------------------------------ one Build invocation
\* Arguments that name an optional file: "" (not supplied), a path that
\* cannot be read, or a readable file.
FileArgs == {"", "missing", "readable"}

\* Schema documents: one that parses and validates, one that does not parse,
\* one that parses and fails validation.
SchemaDocs == {"valid", "unparsable", "invalid"}

\* Digests of the remote base image's layers, by position.
DiffIDs == <<"sha256:l0", "sha256:l1", "sha256:l2", "sha256:l3">>
Layers(n) == SubSeq(DiffIDs, 1, n)

\* Caller annotations used in the runs: none, a fresh key, and keys that
\* collide with computed labels.
AnnotationChoices ==
    { EmptyMap,
      [k \in {"custom"} |-> "annotation"],
      [k \in {HasInitLabelKey, RevisionLabelKey} |-> "annotation"],
      [k \in {LastLayerShaLabelKey, CogVersionLabelKey, "custom"} |-> "annotation"] }

\* The environment and the two lookups before Build has made them.
NoEnv == [GITHUB_SHA |-> [set |-> FALSE, v |-> ""],
          GITHUB_REF_NAME |-> [set |-> FALSE, v |-> ""]]
NoLookup == [v |-> "", err |-> FALSE, calls |-> <<>>]

NoPrev == [ran |-> FALSE, ok |-> FALSE, separateWeights |-> FALSE,
           imageName |-> "", tree |-> {}, cached |-> FALSE, builds |-> 0]

Idle ==
    [pc |-> "idle",
     dockerfileFile |-> "", separateWeights |-> FALSE, imageName |-> "",
     schemaFile |-> "", annotations |-> EmptyMap,
     dockerfileContents |-> <<>>,
     generator |-> "none", deferred |-> FALSE,
     cogBaseImageName |-> "",
     weightsManifest |-> {}, cachedManifest |-> NoManifest,
     schemaJSON |-> "", layers |-> <<>>,
     env |-> NoEnv, commit |-> NoLookup, tag |-> NoLookup,
     labels |-> EmptyMap, attached |-> EmptyMap,
     log |-> <<>>, engine |-> <<>>, err |-> "",
     start |-> NoFile, original |-> NoFile, overlapped |-> FALSE,
     prev |-> NoPrev]

\* Number of occurrences of step e in a log.
RECURSIVE Count(_, _)
Count(log, e) ==
    IF log = <<>> THEN 0
    ELSE (IF Head(log) = e THEN 1 ELSE 0) + Count(Tail(log), e)

\* What a finished invocation leaves for the reader of the next one.
Summary(b) ==
    IF b.pc \notin {"done", "failed"} THEN b.prev
    ELSE [ran |-> TRUE, ok |-> b.pc = "done",
          separateWeights |-> b.separateWeights /\ b.dockerfileFile = "",
          imageName |-> b.imageName, tree |-> b.weightsManifest,
          cached |-> b.cachedManifest.found, builds |-> Len(b.engine)]

\* A step of Build has run.
Did(b, step) == [b EXCEPT !.log = Append(@, step)]
Goto(b, pc) == [b EXCEPT !.pc = pc]

\* Build returns: the deferred generator.Cleanup (registered at line 77)
\* runs first.
Return(b, pc) ==
    LET c == IF b.deferred
             THEN [b EXCEPT !.log = Append(@, "Cleanup"), !.generator = "cleaned"]
             ELSE b
    IN  [c EXCEPT !.pc = pc]

\* Build returns the error of the step it just ran.
Fail(b, step) == Return([Did(b, step) EXCEPT !.err = step], "failed")

Set(p, b) == build' = [build EXCEPT ![p] = b]
At(p, pc) == build[p].pc = pc

\* A call whose only effect here is its outcome.
Call(p, at, step, next) ==
    /\ At(p, at)
    /\ \E ok \in BOOLEAN :
          Set(p, IF ok THEN Goto(Did(build[p], step), next)
                       ELSE Fail(build[p], step))
    /\ UNCHANGED <<files, tree, runs>>

Init ==
    /\ dockerignore \in UserDockerignores
    /\ backup = NoFile
    /\ manifestFile = NoManifest
    /\ \E stale \in {NoFile, File(<<"stale">>)} :
          bundledSchema = stale /\ bundledPy = stale
    /\ images = [n \in ImageNames |-> NoManifest]
    /\ tree \in Trees
    /\ runs = 0
    /\ build = [p \in Procs |-> Idle]

\* Some caller is inside Build.
Running(b) == b.pc \notin {"idle", "done", "failed", "panicked"}

\* Build is called (lines 39-43) with dockerfileFile in dfs, separateWeights
\* in sws and imageName in names, on a source tree of trees.  Kept for the properties: the exclusion file as it
\* is now (start), as it was before the first invocation (original), and
\* whether some invocation so far began while another one was under way in
\* the same directory (overlapped).
StartWith(p, maxRuns, dfs, sws, names, trees) ==
    /\ ~Running(build[p])
    /\ runs < maxRuns
    /\ runs' = runs + 1
    /\ \E df \in dfs, sw \in sws, name \in names, t \in trees :
          /\ tree' = t
          /\ Set(p, [Idle EXCEPT !.pc = "removeBundled",
                                 !.dockerfileFile = df,
                                 !.separateWeights = sw,
                                 !.imageName = name,
                                 !.start = dockerignore,
                                 !.original =
                                     IF \E q \in Procs : build[q].pc # "idle"
                                     THEN build[CHOOSE q \in Procs :
                                                   build[q].pc # "idle"].original
                                     ELSE dockerignore,
                                 !.overlapped =
                                     \E q \in Procs :
                                        \/ q # p /\ Running(build[q])
                                        \/ build[q].overlapped,
                                 !.prev = Summary(build[p])])
    /\ UNCHANGED files

\* Build is called with any arguments.
Start(p, maxRuns) == StartWith(p, maxRuns, FileArgs, BOOLEAN, ImageNames, Trees)

\* Variant: the files of a previous build are left where they are.
RemoveBundled_Kept(p) ==
    /\ At(p, "removeBundled")
    /\ Set(p, Goto(Did(build[p], "removeBundled"), "check"))
    /\ UNCHANGED <<files, tree, runs>>

\* os.Remove of the bundled schema files (lines 45-47).
RemoveBundled(p) ==
    /\ At(p, "removeBundled")
    /\ bundledSchema' = NoFile
    /\ bundledPy' = NoFile
    /\ Set(p, Goto(Did(build[p], "removeBundled"), "check"))
    /\ UNCHANGED <<dockerignore, backup, manifestFile, images, tree, runs>>

\* Variant: the weight-separation flag is looked at before the override.
AfterCheck_FlagFirst(b) ==
    IF b.dockerfileFile # "" /\ ~b.separateWeights THEN "readDockerfile" ELSE "NewGenerator"

\* Where Build goes after the exclusion-file check (line 55).
AfterCheck(b) == IF b.dockerfileFile # "" THEN "readDockerfile" ELSE "NewGenerator"

\* checkCompatibleDockerIgnore(dir) (lines 49-51).
Check(p) ==
    /\ At(p, "check")
    /\ Set(p, IF checkCompatibleDockerIgnore(dockerignore)
              THEN Goto(Did(build[p], "checkCompatibleDockerIgnore"), AfterCheck(build[p]))
              ELSE Fail(build[p], "checkCompatibleDockerIgnore"))
    /\ UNCHANGED <<files, tree, runs>>


\* docker.Build(dir, instructions, imageName, ...): one invocation of the
\* build engine, as the engine sees it.
Invocation(instructions, name, ok) ==
    [instructions |-> instructions, imageName |-> name, ok |-> ok]
Invoked(b, instructions, name, ok) ==
    [b EXCEPT !.engine = Append(@, Invocation(instructions, name, ok))]

\* imageName + "-weights"
WeightsImageName(name) == <<name, "-weights">>

\* ---------------------------------------------- build-instructions override
\* The bytes of the file that dockerfileFile names.
OverrideContents == <<"contents of", "dockerfileFile">>

\* os.ReadFile(dockerfileFile) (lines 56-59).
ReadDockerfile(p) ==
    /\ At(p, "readDockerfile")
    /\ Set(p, IF build[p].dockerfileFile = "readable"
              THEN Goto([Did(build[p], "ReadDockerfile")
                            EXCEPT !.dockerfileContents = OverrideContents],
                        "buildOverride")
              ELSE Fail(build[p], "ReadDockerfile"))
    /\ UNCHANGED <<files, tree, runs>>

\* docker.Build with the override's contents (lines 60-62).
BuildOverride(p) ==
    /\ At(p, "buildOverride")
    /\ \E ok \in BOOLEAN :
          LET b == Invoked(build[p], build[p].dockerfileContents, <<build[p].imageName>>, ok)
          IN  Set(p, IF ok THEN Goto(Did(b, "docker.Build"), "schema")
                           ELSE Fail(b, "docker.Build"))
    /\ UNCHANGED <<files, tree, runs>>

\* ------------------------------------------------------------ generator path
\* dockerfile.NewGenerator (lines 64-68).
NewGenerator(p) ==
    /\ At(p, "NewGenerator")
    /\ \E ok \in BOOLEAN :
          Set(p, IF ok THEN Goto([Did(build[p], "NewGenerator") EXCEPT !.generator = "live"],
                                 "BuildDir")
                       ELSE Fail(build[p], "NewGenerator"))
    /\ UNCHANGED <<files, tree, runs>>

\* generator.BuildDir() (lines 69-72).
BuildDir(p) == Call(p, "BuildDir", "BuildDir", "BuildContexts")

\* The defer of generator.Cleanup takes effect once both BuildDir and
\* BuildContexts have returned without error (lines 73-81).
DeferRegistered(ok) == ok

\* generator.BuildContexts() and the defer that follows it (lines 73-81).
BuildContexts(p) ==
    /\ At(p, "BuildContexts")
    /\ \E ok \in BOOLEAN :
          LET b == [build[p] EXCEPT !.deferred = DeferRegistered(ok)]
          IN  Set(p, IF ok THEN Goto(Did(b, "BuildContexts"), "BaseImage")
                           ELSE Fail(b, "BuildContexts"))
    /\ UNCHANGED <<files, tree, runs>>

\* Variant: weights are separated whatever the flag says.
AfterBaseImage_AlwaysSeparate(b) == "GenerateSeparateWeights"

\* Where Build goes after the generator is configured (line 96).
AfterBaseImage(b) ==
    IF b.separateWeights THEN "GenerateSeparateWeights" ELSE "GenerateUnified"

\* The generator's setters, IsUsingCogBaseImage and BaseImage (lines 82-94).
BaseImage(p) ==
    /\ At(p, "BaseImage")
    /\ \E using \in BOOLEAN, ok \in BOOLEAN :
          LET b == Did(build[p], "BaseImage")
          IN  Set(p, IF ~using THEN Goto(b, AfterBaseImage(b))
                     ELSE IF ok
                     THEN Goto([b EXCEPT !.cogBaseImageName = "cog-base"], AfterBaseImage(b))
                     ELSE Fail(build[p], "BaseImage"))
    /\ UNCHANGED <<files, tree, runs>>

\* generator.GenerateModelBaseWithSeparateWeights (lines 97-100).
GenerateSeparateWeights(p) ==
    Call(p, "GenerateSeparateWeights", "GenerateModelBaseWithSeparateWeights", "backup")

\* backupDockerignore() in Build (lines 102-104).
Backup(p) ==
    /\ At(p, "backup")
    /\ LET r == backupDockerignore(dockerignore, backup)
       IN  /\ dockerignore' = r.dockerignore
           /\ backup' = r.backup
           /\ Set(p, IF r.ok THEN Goto(Did(build[p], "backupDockerignore"),
                                       "GenerateWeightsManifest")
                             ELSE Fail(build[p], "backupDockerignore"))
    /\ UNCHANGED <<manifestFile, bundledSchema, bundledPy, images, tree, runs>>

\* generator.GenerateWeightsManifest() (lines 106-109).
GenerateWeightsManifest(p) ==
    /\ At(p, "GenerateWeightsManifest")
    /\ \E ok \in BOOLEAN :
          Set(p, IF ok THEN Goto([Did(build[p], "GenerateWeightsManifest")
                                     EXCEPT !.weightsManifest = tree],
                                 "LoadManifest")
                       ELSE Fail(build[p], "GenerateWeightsManifest"))
    /\ UNCHANGED <<files, tree, runs>>

\* Where Build goes once it knows whether the weights changed (line 112).
AfterLoadManifest(m, cached) ==
    IF changed(m, cached) THEN "makeDockerignoreForWeightsImage" ELSE "writeRunner"

\* weights.LoadManifest and the comparison (lines 110-112, 120-122).
LoadManifest(p) ==
    /\ At(p, "LoadManifest")
    /\ Set(p, Goto([Did(build[p], "LoadManifest") EXCEPT !.cachedManifest = manifestFile],
                   AfterLoadManifest(build[p].weightsManifest, manifestFile)))
    /\ UNCHANGED <<files, tree, runs>>

\* makeDockerignoreForWeightsImage() in buildWeightsImage (lines 353-355).
MakeDockerignoreForWeightsImage(p) ==
    /\ At(p, "makeDockerignoreForWeightsImage")
    /\ LET r == makeDockerignoreForWeightsImage(dockerignore, backup)
           b == Did(Did(build[p], "backupDockerignore"), "writeDockerignore")
       IN  /\ dockerignore' = r.dockerignore
           /\ backup' = r.backup
           /\ Set(p, IF r.ok THEN Goto(b, "buildWeights")
                             ELSE Fail(build[p], "makeDockerignoreForWeightsImage"))
    /\ UNCHANGED <<manifestFile, bundledSchema, bundledPy, images, tree, runs>>

\* Variant: the error of the weights-image build is ignored.
AfterBuildWeights_IgnoreError(ok) == "Save"

\* Where Build goes after the weights-image build (lines 113-116).
AfterBuildWeights(ok) == IF ok THEN "Save" ELSE "failed"

\* docker.Build of the weights image in buildWeightsImage (lines 356-359).
BuildWeights(p) ==
    /\ At(p, "buildWeights")
    /\ \E ok \in BOOLEAN :
          LET b == Invoked(build[p], <<"weightsDockerfile">>,
                           WeightsImageName(build[p].imageName), ok)
          IN  /\ Set(p, IF AfterBuildWeights(ok) = "failed"
                        THEN Fail(b, "docker.Build weights")
                        ELSE Goto(Did(b, "docker.Build weights"), AfterBuildWeights(ok)))
              /\ images' = IF ok
                           THEN [images EXCEPT ![build[p].imageName] = Manifest(tree)]
                           ELSE images
    /\ UNCHANGED <<dockerignore, backup, manifestFile, bundledSchema, bundledPy,
                   tree, runs>>

\* What weightsManifest.Save writes (line 116).
SavedManifest(b) == Manifest(b.weightsManifest)

\* weightsManifest.Save(weightsManifestPath) (lines 116-119).
Save(p) ==
    /\ At(p, "Save")
    /\ \E ok \in BOOLEAN :
          /\ manifestFile' = IF ok THEN SavedManifest(build[p]) ELSE manifestFile
          /\ Set(p, IF ok THEN Goto(Did(build[p], "Save"), "writeRunner")
                          ELSE Fail(build[p], "Save"))
    /\ UNCHANGED <<dockerignore, backup, bundledSchema, bundledPy, images, tree, runs>>

\* writeDockerignore(dockerignoreContents) in buildRunnerImage (lines 363-365).
WriteRunner(p) ==
    /\ At(p, "writeRunner")
    /\ LET r == writeDockerignore(dockerignore, backup, RunnerDockerignore)
       IN  /\ dockerignore' = r.dockerignore
           /\ backup' = r.backup
           /\ Set(p, IF r.ok THEN Goto(Did(build[p], "writeDockerignore"), "buildRunner")
                             ELSE Fail(build[p], "writeDockerignore"))
    /\ UNCHANGED <<manifestFile, bundledSchema, bundledPy, images, tree, runs>>

\* Variant: the error of the runner-image build is ignored.
AfterBuildRunner_IgnoreError(ok) == "restore"

\* Where Build goes after the runner-image build (lines 366-369).
AfterBuildRunner(ok) == IF ok THEN "restore" ELSE "failed"

\* docker.Build of the runner image in buildRunnerImage (lines 366-368).
BuildRunner(p) ==
    /\ At(p, "buildRunner")
    /\ \E ok \in BOOLEAN :
          LET b == Invoked(build[p], <<"runnerDockerfile">>, <<build[p].imageName>>, ok)
          IN  Set(p, IF AfterBuildRunner(ok) = "failed"
                     THEN Fail(b, "docker.Build runner")
                     ELSE Goto(Did(b, "docker.Build runner"), AfterBuildRunner(ok)))
    /\ UNCHANGED <<files, tree, runs>>

\* restoreDockerignore() in buildRunnerImage (lines 369-372).
Restore(p) ==
    /\ At(p, "restore")
    /\ LET r == restoreDockerignore(dockerignore, backup)
       IN  /\ dockerignore' = r.dockerignore
           /\ backup' = r.backup
           /\ Set(p, IF r.ok THEN Goto(Did(build[p], "restoreDockerignore"), "schema")
                             ELSE Fail(build[p], "restoreDockerignore"))
    /\ UNCHANGED <<manifestFile, bundledSchema, bundledPy, images, tree, runs>>

\* generator.GenerateDockerfileWithoutSeparateWeights (lines 128-131).
GenerateUnified(p) ==
    Call(p, "GenerateUnified", "GenerateDockerfileWithoutSeparateWeights", "buildUnified")

\* docker.Build of the unified image (lines 132-134).
BuildUnified(p) ==
    /\ At(p, "buildUnified")
    /\ \E ok \in BOOLEAN :
          LET b == Invoked(build[p], <<"dockerfileContents">>, <<build[p].imageName>>, ok)
          IN  Set(p, IF ok THEN Goto(Did(b, "docker.Build"), "schema")
                           ELSE Fail(b, "docker.Build"))
    /\ UNCHANGED <<files, tree, runs>>


\* ------------------------------------------------------- schema resolution
\* os.ReadFile(schemaFile) when a schema-file override is supplied
\* (lines 139-146).
ReadSchemaFile(p, in) ==
    /\ At(p, "schema")
    /\ \E sf \in FileArgs \ {""}, doc \in in.schemaDocs :
          LET b == [build[p] EXCEPT !.schemaFile = sf]
          IN  Set(p, IF sf = "readable"
                     THEN Goto([Did(b, "ReadSchemaFile") EXCEPT !.schemaJSON = doc],
                               "writeBundledSchema")
                     ELSE Fail(b, "ReadSchemaFile"))
    /\ UNCHANGED <<files, tree, runs>>

\* GenerateOpenAPISchema and json.Marshal when no schema file is supplied
\* (lines 147-160).
GenerateOpenAPISchema(p) ==
    /\ At(p, "schema")
    /\ \E ok \in BOOLEAN, doc \in {"valid", "invalid"} :
          Set(p, IF ok
                 THEN Goto([Did(build[p], "GenerateOpenAPISchema") EXCEPT !.schemaJSON = doc],
                           "writeBundledSchema")
                 ELSE Fail(build[p], "GenerateOpenAPISchema"))
    /\ UNCHANGED <<files, tree, runs>>

\* os.WriteFile(bundledSchemaFile, schemaJSON) (lines 162-165).
WriteBundledSchema(p) ==
    /\ At(p, "writeBundledSchema")
    /\ \E ok \in BOOLEAN :
          /\ bundledSchema' = IF ok THEN File(<<build[p].schemaJSON>>) ELSE bundledSchema
          /\ Set(p, IF ok THEN Goto(Did(build[p], "WriteBundledSchema"), "LoadFromData")
                          ELSE Fail(build[p], "WriteBundledSchema"))
    /\ UNCHANGED <<dockerignore, backup, manifestFile, bundledPy, images, tree, runs>>

\* loader.LoadFromData(schemaJSON) (lines 167-172).
LoadFromData(p) ==
    /\ At(p, "LoadFromData")
    /\ Set(p, IF build[p].schemaJSON # "unparsable"
              THEN Goto(Did(build[p], "LoadFromData"), "Validate")
              ELSE Fail(build[p], "LoadFromData"))
    /\ UNCHANGED <<files, tree, runs>>

\* doc.Validate(loader.Context) (lines 173-176).
Validate(p) ==
    /\ At(p, "Validate")
    /\ Set(p, IF build[p].schemaJSON = "valid"
              THEN Goto(Did(build[p], "Validate"), "MarshalConfig")
              ELSE Fail(build[p], "Validate"))
    /\ UNCHANGED <<files, tree, runs>>

\* ---------------------------------------------------------- label assembly
\* json.Marshal(cfg) (lines 183-186).
MarshalConfig(p) == Call(p, "MarshalConfig", "MarshalConfig", "GeneratePipFreeze")

\* GeneratePipFreeze (lines 188-191).
GeneratePipFreeze(p) == Call(p, "GeneratePipFreeze", "GeneratePipFreeze", "labels")

\* The labels literal (lines 193-201).
ComputedLabels(b) ==
    [k \in {CogVersionLabelKey, CogConfigLabelKey, SchemaLabelKey,
            PipFreezeLabelKey, HasInitLabelKey} |->
        CASE k = CogVersionLabelKey -> "global.Version"
          [] k = CogConfigLabelKey -> "configJSON"
          [] k = SchemaLabelKey -> b.schemaJSON
          [] k = PipFreezeLabelKey -> "pipFreeze"
          [] OTHER -> "true"]

Labels(p) ==
    /\ At(p, "labels")
    /\ Set(p, Goto([Did(build[p], "labels") EXCEPT !.labels = ComputedLabels(build[p])],
                   "baseImageLabels"))
    /\ UNCHANGED <<files, tree, runs>>

\* What the registry answers for the base image: each call may fail, and the
\* image has n layers.
RegistryAnswers ==
    [parse : BOOLEAN, image : BOOLEAN, layers : BOOLEAN, diffID : BOOLEAN,
     n : 0..MaxLayers]

\* Variant: the test for an image without layers never fires.
NoLayers_Never(layers) == Len(layers) < 0

\* len(layers) == 0 (line 221).
NoLayers(layers) == Len(layers) = 0

\* Variant: the first layer is taken instead of the last.
LastLayerIndex_First(layers) == 0

\* lastLayerIndex := len(layers) - 1 (line 225).
LastLayerIndex(layers) == Len(layers) - 1

\* The base-image block (lines 203-236): the labels it leaves, the layers it
\* fetched, the calls it made and the error it returns ("" for none).
\* Indexing layers outside its range is a run-time panic, not an error.
BaseImageLabels(labels, cogBaseImageName, r) ==
    IF cogBaseImageName = ""
    THEN [labels |-> labels, layers |-> <<>>, calls |-> <<>>, err |-> ""]
    ELSE LET named == Put(labels, BaseImageNameLabelKey, cogBaseImageName)
             layers == Layers(r.n)
             lastLayerIndex == LastLayerIndex(layers)
         IN  IF ~r.parse
             THEN [labels |-> named, layers |-> <<>>,
                   calls |-> <<"ParseReference">>, err |-> "ParseReference"]
             ELSE IF ~r.image
             THEN [labels |-> named, layers |-> <<>>,
                   calls |-> <<"ParseReference", "remote.Image">>,
                   err |-> "remote.Image"]
             ELSE IF ~r.layers
             THEN [labels |-> named, layers |-> <<>>,
                   calls |-> <<"ParseReference", "remote.Image", "Layers">>,
                   err |-> "Layers"]
             ELSE IF NoLayers(layers)
             THEN [labels |-> named, layers |-> layers,
                   calls |-> <<"ParseReference", "remote.Image", "Layers">>,
                   err |-> "Cog base image has no layers"]
             ELSE IF lastLayerIndex + 1 \notin DOMAIN layers
             THEN [labels |-> named, layers |-> layers,
                   calls |-> <<"ParseReference", "remote.Image", "Layers">>,
                   err |-> "panic: index out of range"]
             ELSE IF ~r.diffID
             THEN [labels |-> named, layers |-> layers,
                   calls |-> <<"ParseReference", "remote.Image", "Layers", "DiffID">>,
                   err |-> "DiffID"]
             ELSE [labels |-> Put(Put(named, LastLayerShaLabelKey,
                                      layers[lastLayerIndex + 1]),
                                  LastLayerIdxLabelKey, ToString(lastLayerIndex)),
                   layers |-> layers,
                   calls |-> <<"ParseReference", "remote.Image", "Layers", "DiffID">>,
                   err |-> ""]

BaseImageLineage(p, in) ==
    /\ At(p, "baseImageLabels")
    /\ \E r \in in.registry :
          LET res == BaseImageLabels(build[p].labels, build[p].cogBaseImageName, r)
              b == [build[p] EXCEPT !.labels = res.labels, !.layers = res.layers,
                                    !.log = @ \o res.calls, !.err = res.err]
          IN  Set(p, IF res.err = "" THEN Goto(b, "provenance")
                     ELSE IF res.err = "panic: index out of range"
                     THEN Goto(b, "panicked")
                     ELSE Return(b, "failed"))
    /\ UNCHANGED <<files, tree, runs>>

\* Variant: the tag label is set only when the commit label is.
ProvenanceLabels_Coupled(labels, head, tag) ==
    IF head.v # "" /\ ~head.err
    THEN LET withCommit == Put(labels, RevisionLabelKey, head.v)
         IN  IF tag.v # "" /\ ~tag.err
             THEN Put(withCommit, VersionLabelKey, tag.v) ELSE withCommit
    ELSE labels

\* The two provenance labels (lines 238-248): each is set when its lookup
\* returned a non-empty value and no error.
ProvenanceLabels(labels, head, tag) ==
    LET withCommit == IF head.v # "" /\ ~head.err
                      THEN Put(labels, RevisionLabelKey, head.v) ELSE labels
    IN  IF tag.v # "" /\ ~tag.err
        THEN Put(withCommit, VersionLabelKey, tag.v) ELSE withCommit

Provenance(p, in) ==
    /\ At(p, "provenance")
    /\ \E e1, e2 \in in.env, p1, p2 \in in.probe, s1, s2 \in in.sub :
          LET commit == gitHead(e1, p1, s1)
              tag == gitTag(e2, p2, s2)
          IN  Set(p, Goto([Did(build[p], "provenance")
                              EXCEPT !.env = [GITHUB_SHA |-> e1, GITHUB_REF_NAME |-> e2],
                                     !.commit = commit, !.tag = tag,
                                     !.labels = ProvenanceLabels(@, commit, tag)],
                          "annotations"))
    /\ UNCHANGED <<files, tree, runs>>

\* Variant: an annotation does not replace a label that is already set.
WithAnnotations_ComputedWins(labels, annotations) ==
    [k \in DOMAIN labels \cup DOMAIN annotations |->
        IF k \in DOMAIN labels THEN labels[k] ELSE annotations[k]]

\* for key, val := range annotations { labels[key] = val } (lines 250-252).
WithAnnotations(labels, annotations) ==
    [k \in DOMAIN labels \cup DOMAIN annotations |->
        IF k \in DOMAIN annotations THEN annotations[k] ELSE labels[k]]

Annotations(p, in) ==
    /\ At(p, "annotations")
    /\ \E a \in in.annotations :
          Set(p, Goto([Did(build[p], "annotations")
                          EXCEPT !.annotations = a,
                                 !.labels = WithAnnotations(@, a)],
                      "attach"))
    /\ UNCHANGED <<files, tree, runs>>

\* docker.BuildAddLabelsAndSchemaToImage and the return of Build
\* (lines 254-257).
Attach(p) ==
    /\ At(p, "attach")
    /\ \E ok \in BOOLEAN :
          LET b == [build[p] EXCEPT !.attached = build[p].labels]
          IN  Set(p, IF ok THEN Return(Did(b, "BuildAddLabelsAndSchemaToImage"), "done")
                           ELSE Fail(b, "BuildAddLabelsAndSchemaToImage"))
    /\ UNCHANGED <<files, tree, runs>>

\* ------------------------------------------------------------ specification
\* The values drawn for the inputs that Build only reads after the build
\* phase: every value of the sets above, or a few of each kind.
AllInputs ==
    [schemaDocs |-> SchemaDocs, registry |-> RegistryAnswers,
     env |-> EnvValues, probe |-> ProbeResults, sub |-> SubResults,
     annotations |-> AnnotationChoices]

FewInputs ==
    [schemaDocs |-> {"valid", "invalid"},
     registry |-> {r \in RegistryAnswers :
                     r.parse /\ r.image /\ r.layers /\ r.diffID /\ r.n <= 1},
     env |-> {[set |-> FALSE, v |-> ""]},
     probe |-> {[err |-> FALSE, out |-> "true"]},
     sub |-> {[err |-> FALSE, out |-> "from-git"]},
     annotations |-> {EmptyMap, [k \in {HasInitLabelKey} |-> "annotation"]}]

\* The steps of Build after the call, by part of the function: lines 45-51,
Prologue(p) == RemoveBundled(p) \/ Check(p)

\* lines 55-62,
OverridePath(p) == ReadDockerfile(p) \/ BuildOverride(p)

\* lines 64-94,
Generator(p) == NewGenerator(p) \/ BuildDir(p) \/ BuildContexts(p) \/ BaseImage(p)

\* lines 96-126,
SeparatePath(p) ==
    \/ GenerateSeparateWeights(p) \/ Backup(p) \/ GenerateWeightsManifest(p)
    \/ LoadManifest(p) \/ MakeDockerignoreForWeightsImage(p) \/ BuildWeights(p)
    \/ Save(p) \/ WriteRunner(p) \/ BuildRunner(p) \/ Restore(p)

\* lines 127-135,
UnifiedPath(p) == GenerateUnified(p) \/ BuildUnified(p)

\* lines 137-257.
Epilogue(p, in) ==
    \/ ReadSchemaFile(p, in) \/ GenerateOpenAPISchema(p) \/ WriteBundledSchema(p)
    \/ LoadFromData(p) \/ Validate(p)
    \/ MarshalConfig(p) \/ GeneratePipFreeze(p) \/ Labels(p)
    \/ BaseImageLineage(p, in) \/ Provenance(p, in) \/ Annotations(p, in)
    \/ Attach(p)

Run(p, in) ==
    \/ Prologue(p) \/ OverridePath(p) \/ Generator(p)
    \/ SeparatePath(p) \/ UnifiedPath(p) \/ Epilogue(p, in)

Step(p, maxRuns, in) == Start(p, maxRuns) \/ Run(p, in)

\* Build invocations by one caller, one after the other, up to MaxRuns.
Next == Step(1, MaxRuns, FewInputs)

Spec == Init /\ [][Next]_vars

\* One Build invocation with every value of the late inputs.
NextOne == Step(1, 1, AllInputs)

SpecOne == Init /\ [][NextOne]_vars

\* The late inputs of a run in which nothing but a step's outcome varies.
OneInput ==
    [schemaDocs |-> {"valid"},
     registry |-> {r \in RegistryAnswers :
                     r.parse /\ r.image /\ r.layers /\ r.diffID /\ r.n = 1},
     env |-> {[set |-> FALSE, v |-> ""]},
     probe |-> {[err |-> FALSE, out |-> "true"]},
     sub |-> {[err |-> FALSE, out |-> "from-git"]},
     annotations |-> {EmptyMap}]

\* A source directory no build has left a bundled file in, with one of the
\* source trees.
InitConc ==
    /\ Init
    /\ ~bundledSchema.exists /\ ~bundledPy.exists
    /\ tree = {<<"weights.bin", 1>>}

\* One weight-separating Build invocation by each caller of Procs, for the
\* same image, in one source directory that does not change: Build takes no
\* lock, so the steps of the callers interleave in any order, or follow each
\* other.
NextConc ==
    \E p \in Procs :
        \/ StartWith(p, IF build[p].pc = "idle" THEN Cardinality(Procs) ELSE 0,
                      {""}, {TRUE}, {"model"}, {tree})
        \/ Prologue(p) \/ Generator(p) \/ SeparatePath(p) \/ Epilogue(p, OneInput)

SpecConc == InitConc /\ [][NextConc]_vars


\* ------------------------------------------------------------------ claims
Returned(b) == b.pc \in {"done", "failed"}
Ran(b, step) == \E i \in 1..Len(b.log) : b.log[i] = step
EngineSteps == {"docker.Build", "docker.Build weights", "docker.Build runner"}
\* The invocation was made on the generator path with weight separation.
Separating(b) == b.separateWeights /\ b.dockerfileFile = ""

\* C1: when Build returns success, or fails at a build-engine step, the
\* exclusion file is as it was when Build started (same bytes, or absent).
C1_ExclusionFileAsAtStart ==
    \A p \in Procs :
        LET b == build[p]
        IN  (b.pc = "done" \/ (b.pc = "failed" /\ b.err \in EngineSteps))
                => dockerignore = b.start

\* C2: with weight separation, a successful run that found no cached manifest
\* invoked the engine exactly twice (weights image, then runner image) and
\* left the manifest of its tree persisted; and a successful run that follows
\* such a run, with the same image name and an unchanged tree, invokes the
\* engine exactly once, for the runner image.
C2_FirstRun(b) ==
    (b.pc = "done" /\ Separating(b) /\ ~b.cachedManifest.found)
        => /\ Len(b.engine) = 2
           /\ b.engine[1].imageName = WeightsImageName(b.imageName)
           /\ b.engine[2].imageName = <<b.imageName>>
           /\ manifestFile = Manifest(b.weightsManifest)

C2_Follows(b) ==
    /\ b.pc = "done" /\ Separating(b)
    /\ b.prev.ran /\ b.prev.ok /\ b.prev.separateWeights /\ ~b.prev.cached
    /\ b.prev.imageName = b.imageName
    /\ b.prev.tree = b.weightsManifest

C2_SecondRun(b) ==
    C2_Follows(b)
        => /\ b.prev.builds = 2
           /\ Len(b.engine) = 1
           /\ b.engine[1].imageName = <<b.imageName>>
           /\ ~Ran(b, "docker.Build weights")

C2_RerunSkipsWeights ==
    \A p \in Procs : C2_FirstRun(build[p]) /\ C2_SecondRun(build[p])

C2_Witness == \E p \in Procs : C2_Follows(build[p]) /\ Len(build[p].engine) = 1

\* The first engine call of this invocation built the weights image, with
\* success.
WeightsBuilt(b) ==
    /\ Len(b.engine) >= 1
    /\ b.engine[1].imageName = WeightsImageName(b.imageName)
    /\ b.engine[1].ok

\* C3: the persisted manifest changes only in the Save step of a run whose
\* weights-image build has just succeeded, it then holds the manifest computed
\* from the current tree, and a run saves at most once; a run whose cached
\* manifest equals the current one never saves.
C3_ManifestSavedOnlyAfterWeightsBuild ==
    [][ /\ manifestFile' # manifestFile
           => \E p \in Procs :
                 /\ build[p].pc = "Save"
                 /\ WeightsBuilt(build[p]) /\ Len(build[p].engine) = 1
                 /\ Count(build[p].log, "Save") = 0
                 /\ manifestFile' = Manifest(tree)
        /\ \A p \in Procs :
              /\ Count(build'[p].log, "Save") <= 1
              /\ Ran(build'[p], "Save")
                    => /\ WeightsBuilt(build'[p])
                       /\ changed(build'[p].weightsManifest, build'[p].cachedManifest)
      ]_vars

C3_Witness ==
    \E p \in Procs :
        /\ Ran(build[p], "Save") /\ build[p].err # "Save"
        /\ build[p].cachedManifest.found
        /\ manifestFile = Manifest(build[p].weightsManifest)

\* C4: when Build returns after a backup of the exclusion file ran, the
\* restore ran exactly once (whatever the exit path).
C4_RestoreOncePerBackup ==
    \A p \in Procs :
        LET b == build[p]
        IN  (Returned(b) /\ Ran(b, "backupDockerignore"))
                => Count(b.log, "restoreDockerignore") = 1


\* The phase of the pipeline a step belongs to.
Rank(step) ==
    CASE step = "removeBundled" -> 0
      [] step = "checkCompatibleDockerIgnore" -> 1
      [] step \in {"ReadDockerfile", "NewGenerator", "BuildDir", "BuildContexts",
                   "BaseImage", "GenerateModelBaseWithSeparateWeights",
                   "GenerateDockerfileWithoutSeparateWeights"} -> 2
      [] step \in {"backupDockerignore", "GenerateWeightsManifest", "LoadManifest",
                   "writeDockerignore", "docker.Build weights", "Save",
                   "docker.Build runner", "restoreDockerignore", "docker.Build"} -> 3
      [] step \in {"ReadSchemaFile", "GenerateOpenAPISchema", "WriteBundledSchema",
                   "LoadFromData", "Validate"} -> 4
      [] step \in {"MarshalConfig", "GeneratePipFreeze", "labels", "ParseReference",
                   "remote.Image", "Layers", "DiffID", "provenance",
                   "annotations"} -> 5
      [] step = "BuildAddLabelsAndSchemaToImage" -> 6
      [] OTHER -> 7

\* The steps of a log without the deferred cleanup.
Steps(b) == SelectSeq(b.log, LAMBDA e : e # "Cleanup")
LastStep(b) == IF Steps(b) = <<>> THEN "" ELSE Steps(b)[Len(Steps(b))]
\* The step that returned a given error.
ErrStep(err) == IF err = "Cog base image has no layers" THEN "Layers" ELSE err

\* C5: the steps of a run follow the order check, generation, build phase
\* (weights image before runner image), schema, label assembly, attach; each
\* at most once; the first failing step ends the run with an error and nothing
\* follows it (no engine call after a failed one); success only after the
\* label attach succeeded.
C5_FixedOrderFailFast ==
    \A p \in Procs :
        LET b == build[p]
            log == b.log
            once == SelectSeq(log, LAMBDA e : e \notin {"backupDockerignore",
                                                        "writeDockerignore"})
        IN  /\ \A i \in 1..(Len(log) - 1) : Rank(log[i]) <= Rank(log[i + 1])
            /\ Len(once) = Cardinality({once[i] : i \in 1..Len(once)})
            /\ Len(b.engine) <= 2
            /\ Len(b.engine) = 2
                  => /\ b.engine[1].imageName = WeightsImageName(b.imageName)
                     /\ b.engine[2].imageName = <<b.imageName>>
            /\ \A i \in 1..Len(b.engine) :
                  ~b.engine[i].ok
                     => i = Len(b.engine) /\ b.pc = "failed" /\ b.err \in EngineSteps
            /\ b.err # "" => b.pc = "failed" /\ LastStep(b) = ErrStep(b.err)
            /\ b.pc = "failed" => b.err # ""
            /\ b.pc = "done"
                  => /\ b.err = ""
                     /\ LastStep(b) = "BuildAddLabelsAndSchemaToImage"
                     /\ Len(b.engine) >= 1

C5_Witness ==
    \E p \in Procs :
        /\ build[p].pc = "failed" /\ build[p].err = "docker.Build runner"
        /\ Len(build[p].engine) = 2

\* C6: when Build fails because the exclusion file excludes .cog, or because
\* the build-instructions override or the schema-file override cannot be read,
\* the build engine has not been invoked.
C6_ConfigErrorsBeforeEngine ==
    \A p \in Procs :
        LET b == build[p]
        IN  (b.pc = "failed"
             /\ b.err \in {"checkCompatibleDockerIgnore", "ReadDockerfile", "ReadSchemaFile"})
                => Len(b.engine) = 0

\* C7: when Build returns after it constructed an instruction generator, the
\* generator's cleanup has run exactly once.
C7_CleanupOnceAfterConstruction ==
    \A p \in Procs :
        LET b == build[p]
        IN  (Returned(b) /\ b.generator # "none") => Count(b.log, "Cleanup") = 1

\* Steps of the generator and of weight separation.
GeneratorSteps ==
    {"NewGenerator", "BuildDir", "BuildContexts", "BaseImage",
     "GenerateModelBaseWithSeparateWeights", "GenerateDockerfileWithoutSeparateWeights",
     "GenerateWeightsManifest", "Cleanup"}
WeightSteps ==
    {"LoadManifest", "Save", "backupDockerignore", "writeDockerignore",
     "restoreDockerignore", "docker.Build weights", "docker.Build runner"}

\* C8: in a run with a build-instructions override, whatever the
\* weight-separation flag: the engine is invoked at most once, exactly once as
\* soon as the override has been read and the build step is over, with the
\* override's contents and the image name; no generator is constructed; no
\* manifest load or save and no exclusion-file backup, write or restore runs,
\* and the exclusion file is not touched.
C8_OverrideSingleBuild ==
    \A p \in Procs :
        LET b == build[p]
        IN  (b.pc # "idle" /\ b.dockerfileFile # "")
                => /\ Len(b.engine) <= 1
                   /\ \A i \in 1..Len(b.engine) :
                         /\ b.engine[i].instructions = OverrideContents
                         /\ b.engine[i].imageName = <<b.imageName>>
                   /\ (Ran(b, "ReadDockerfile") /\ b.err # "ReadDockerfile"
                       /\ b.pc # "buildOverride") => Len(b.engine) = 1
                   /\ b.generator = "none"
                   /\ \A i \in 1..Len(b.log) : b.log[i] \notin GeneratorSteps \cup WeightSteps
                   /\ dockerignore = b.start

C8_Witness ==
    \E p \in Procs :
        /\ build[p].pc = "done" /\ build[p].dockerfileFile = "readable"
        /\ build[p].separateWeights /\ Len(build[p].engine) = 1

\* The label set has been handed to the build engine.
Handed(b) == Ran(b, "BuildAddLabelsAndSchemaToImage")

\* v is the value Build computes for label k in this run.
IsComputed(b, k, v) ==
    CASE k = CogVersionLabelKey -> v = "global.Version"
      [] k = CogConfigLabelKey -> v = "configJSON"
      [] k = SchemaLabelKey -> v = b.schemaJSON
      [] k = PipFreezeLabelKey -> v = "pipFreeze"
      [] k = HasInitLabelKey -> v = "true"
      [] k = BaseImageNameLabelKey -> b.cogBaseImageName # "" /\ v = b.cogBaseImageName
      [] k = LastLayerShaLabelKey -> Len(b.layers) > 0 /\ v = b.layers[Len(b.layers)]
      [] k = LastLayerIdxLabelKey -> Len(b.layers) > 0 /\ v = ToString(Len(b.layers) - 1)
      [] k = RevisionLabelKey -> v \in {"from-env", "from-git"}
      [] k = VersionLabelKey -> v \in {"from-env", "from-git"}
      [] OTHER -> FALSE

\* C9: the label set handed to the build engine maps every annotation key to
\* the annotation's value, also when the key is the key of a computed label;
\* every other label in the set has its computed value, and the five labels
\* that are always computed are in the set.
C9_AnnotationsOverrideLabels ==
    \A p \in Procs :
        LET b == build[p]
        IN  Handed(b)
               => /\ \A k \in DOMAIN b.annotations :
                        k \in DOMAIN b.attached /\ b.attached[k] = b.annotations[k]
                  /\ \A k \in DOMAIN b.attached \ DOMAIN b.annotations :
                        IsComputed(b, k, b.attached[k])
                  /\ {CogVersionLabelKey, CogConfigLabelKey, SchemaLabelKey,
                      PipFreezeLabelKey, HasInitLabelKey} \subseteq DOMAIN b.attached

C9_Witness ==
    \E p \in Procs :
        /\ Handed(build[p]) /\ Ran(build[p], "DiffID")
        /\ LastLayerShaLabelKey \in DOMAIN build[p].annotations
        /\ build[p].attached[LastLayerShaLabelKey] = "annotation"
        /\ build[p].attached[LastLayerIdxLabelKey] = ToString(Len(build[p].layers) - 1)

\* The registry answered the layer query for the managed base image with
\* no layers.
ZeroLayers(b) ==
    /\ b.cogBaseImageName # ""
    /\ Ran(b, "Layers") /\ b.err # "Layers"
    /\ Len(b.layers) = 0

\* C10: with a managed base image whose remote manifest has no layers, Build
\* fails with the no-layers error, the digest of a last layer is never read
\* and the labels are never attached.
C10_ZeroLayersFails ==
    \A p \in Procs :
        LET b == build[p]
        IN  ZeroLayers(b)
               => /\ b.pc = "failed"
                  /\ b.err = "Cog base image has no layers"
                  /\ ~Ran(b, "DiffID")
                  /\ ~Handed(b)

C10_Witness == \E p \in Procs : ZeroLayers(build[p])


\* A lookup returned a value that Build uses.
Found(lookup) == lookup.v # "" /\ ~lookup.err

\* C11: the provenance step never fails: it always hands over to the
\* annotations step with no error, and after it Build can only fail in the
\* label attach; the revision label is set (to the commit) exactly when the
\* commit lookup returned a non-empty value without error, the version label
\* exactly when the tag lookup did, each whatever the other lookup returned;
\* every label set before the step keeps its value and no other key appears.
C11_ProvenanceNeverFatal ==
    [][\A p \in Procs :
          /\ (build[p].pc = "provenance" /\ build'[p] # build[p])
                => LET old == build[p].labels
                       b == build'[p]
                   IN  /\ b.pc = "annotations" /\ b.err = ""
                       /\ RevisionLabelKey \in DOMAIN b.labels <=> Found(b.commit)
                       /\ Found(b.commit) => b.labels[RevisionLabelKey] = b.commit.v
                       /\ VersionLabelKey \in DOMAIN b.labels <=> Found(b.tag)
                       /\ Found(b.tag) => b.labels[VersionLabelKey] = b.tag.v
                       /\ DOMAIN b.labels \ {RevisionLabelKey, VersionLabelKey} = DOMAIN old
                       /\ \A k \in DOMAIN old : b.labels[k] = old[k]
          /\ (Ran(build'[p], "provenance") /\ build'[p].pc = "failed")
                => build'[p].err = "BuildAddLabelsAndSchemaToImage"
      ]_vars

C11_Witness ==
    \E p \in Procs :
        LET b == build[p]
        IN  /\ b.pc = "done"
            /\ b.commit.err /\ Len(b.commit.calls) = 2
            /\ Found(b.tag) /\ b.tag.v = "from-git"
            /\ b.annotations = EmptyMap
            /\ RevisionLabelKey \notin DOMAIN b.attached
            /\ b.attached[VersionLabelKey] = "from-git"

\* The variable is present and non-empty.
EnvGiven(env) == env.set /\ env.v # ""

\* What a lookup did, given its environment variable: the variable's value
\* and no subprocess exactly when the variable is given; else the work-tree
\* probe first, an error after the probe alone when the probe failed or did
\* not answer true, and the query after it otherwise.
LookupAsSpecified(env, lookup, query) ==
    /\ EnvGiven(env) <=> lookup.calls = <<>>
    /\ EnvGiven(env) => lookup.v = env.v /\ ~lookup.err
    /\ ~EnvGiven(env)
          => /\ Len(lookup.calls) >= 1
             /\ lookup.calls[1].cmd = ProbeCmd
             /\ (lookup.calls[1].err \/ lookup.calls[1].out # "true")
                   => lookup.err /\ lookup.v = "" /\ Len(lookup.calls) = 1
             /\ (~lookup.calls[1].err /\ lookup.calls[1].out = "true")
                   => /\ Len(lookup.calls) = 2
                      /\ lookup.calls[2].cmd = query
                      /\ lookup.err = lookup.calls[2].err
                      /\ ~lookup.err => lookup.v = lookup.calls[2].out

\* C13: gitHead and gitTag return GITHUB_SHA / GITHUB_REF_NAME without running
\* a subprocess exactly when the variable is present and non-empty; otherwise
\* they run the work-tree probe, and return an error when the probe fails or
\* says the directory is no work tree.
C13_EnvShortCircuitsGit ==
    \A p \in Procs :
        LET b == build[p]
        IN  Ran(b, "provenance")
               => /\ LookupAsSpecified(b.env.GITHUB_SHA, b.commit, "git rev-parse HEAD")
                  /\ LookupAsSpecified(b.env.GITHUB_REF_NAME, b.tag,
                                       "git describe --tags --dirty")

C13_Witness ==
    \E p \in Procs :
        LET b == build[p]
        IN  /\ Ran(b, "provenance")
            /\ EnvGiven(b.env.GITHUB_SHA) /\ b.commit.calls = <<>>
            /\ b.env.GITHUB_REF_NAME.set /\ b.env.GITHUB_REF_NAME.v = ""
            /\ Len(b.tag.calls) = 1 /\ b.tag.calls[1].out = "false" /\ b.tag.err

\* A bundled schema file or helper is on disk.
Bundled == bundledSchema.exists \/ bundledPy.exists

\* C12: the removal of the bundled schema file and helper is the first step of
\* every run, before the exclusion-file check and any generation; while a run
\* has not yet written its schema, and after a run that failed before schema
\* resolution, no bundled schema file or helper is on disk, whatever a
\* previous build left there.
C12_StaleBundledRemovedFirst ==
    \A p \in Procs :
        LET b == build[p]
        IN  /\ b.log # <<>> => b.log[1] = "removeBundled"
            /\ Count(b.log, "removeBundled") <= 1
            /\ (b.log # <<>> /\ ~Ran(b, "WriteBundledSchema")) => ~Bundled
            /\ (b.pc = "failed" /\ Rank(ErrStep(b.err)) < 4) => ~Bundled

\* A second run failed in the runner-image build after a first run had
\* written its bundled schema.
C12_Witness ==
    \E p \in Procs :
        LET b == build[p]
        IN  /\ b.pc = "failed" /\ b.err = "docker.Build runner"
            /\ b.prev.ran /\ b.prev.ok
            /\ ~Bundled

\* C14: over any sequence of runs in one directory, whenever the backup file
\* exists it holds the exclusion file as it was before the pipeline first
\* modified it: no backup step replaces it by pipeline-written content.
C14_BackupHoldsOriginal ==
    \A p \in Procs :
        LET b == build[p]
        IN  (b.pc # "idle" /\ backup.exists) => backup = b.original

\* s begins with t.
BeginsWith(s, t) == Len(t) <= Len(s) /\ SubSeq(s, 1, Len(t)) = t

\* The file writeDockerignore(contents) is specified to leave, given the
\* backup.
WrittenFrom(bak, contents) ==
    File(IF bak.exists THEN bak.bytes \o <<"\n">> \o contents ELSE contents)

\* writeDockerignore(contents) has just left f beside the backup bak: f is
\* made of the backup and contents only, whatever exclusion file was there
\* before, and writing again changes nothing.
WrittenAsSpecified(f, bak, contents) ==
    /\ f = WrittenFrom(bak, contents)
    /\ \A ig \in {NoFile, File(<<"other">>), f, dockerignore} :
          LET w == writeDockerignore(ig, bak, contents)
          IN  w.ok /\ w.dockerignore = f /\ w.backup = bak

C16_NoSeparationLeavesFiles ==
    [][\A p \in Procs :
          LET b == build[p]
              c == build'[p]
          IN  (Running(b) /\ ~Separating(b) /\ c # b)
                  => /\ dockerignore' = dockerignore
                     /\ backup' = backup
                     /\ manifestFile' = manifestFile
                     /\ dockerignore' = b.start
                     /\ Len(c.engine) <= 1
                     /\ \A i \in 1..Len(c.engine) : c.engine[i].imageName = <<c.imageName>>
                     /\ (c.pc = "done" \/ (c.pc = "failed" /\ Rank(ErrStep(c.err)) >= 4)
                            \/ (Running(c) /\ Rank(LastStep(c)) >= 4))
                           => Len(c.engine) = 1 /\ c.engine[1].ok]_vars

\* A unified generated build succeeded in a directory without exclusion file
\* where a failed weight-separating run had left a manifest behind.
C16_Witness ==
    \E p \in Procs :
        LET b == build[p]
        IN  /\ b.pc = "done" /\ ~b.separateWeights /\ b.dockerfileFile = ""
            /\ ~b.start.exists /\ ~dockerignore.exists
            /\ b.prev.ran /\ b.prev.separateWeights /\ manifestFile.found
            /\ Len(b.engine) = 1

BaseImageLabelKeys == {BaseImageNameLabelKey, LastLayerShaLabelKey, LastLayerIdxLabelKey}

\* C17: the labels Build has computed hold the three base-image labels all
\* together or not at all; they are there exactly when the generator used a
\* managed base image, and never on the override path; the index label is the
\* number of layers minus one and the digest label is the digest of the layer
\* at that index.
C17_BaseImageLabelsTogether ==
    \A p \in Procs :
        LET b == build[p]
            there == BaseImageLabelKeys \cap DOMAIN b.labels
            n == Len(b.layers)
        IN  b.pc \in {"provenance", "annotations"}
                => /\ there = {} \/ there = BaseImageLabelKeys
                   /\ there # {} <=> b.cogBaseImageName # ""
                   /\ b.dockerfileFile # "" => there = {}
                   /\ there # {}
                         => /\ b.labels[BaseImageNameLabelKey] = b.cogBaseImageName
                            /\ n >= 1
                            /\ b.labels[LastLayerIdxLabelKey] = ToString(n - 1)
                            /\ b.labels[LastLayerShaLabelKey] = b.layers[n]

\* The labels were computed from a managed base image of two layers.
C17_Witness ==
    \E p \in Procs :
        LET b == build[p]
        IN  /\ b.pc = "annotations" /\ b.cogBaseImageName # ""
            /\ Len(b.layers) = 2
            /\ b.labels[LastLayerIdxLabelKey] = "1"
            /\ b.labels[LastLayerShaLabelKey] = b.layers[2]
            /\ b.layers[2] # b.layers[1]

\* The backup file holds something else than the user's exclusion file from
\* before the first invocation.
BackupOverwritten ==
    \E p \in Procs : build[p].pc # "idle" /\ backup.exists /\ backup # build[p].original
\* An invocation failed in restoreDockerignore.
RestoreFailed == \E p \in Procs : build[p].err = "restoreDockerignore"
\* No invocation began while another one was under way.
Serialized == \A p \in Procs : ~build[p].overlapped
\* Every build-engine call made so far succeeded.
EngineCallsSucceeded ==
    \A p \in Procs : \A i \in 1..Len(build[p].engine) : build[p].engine[i].ok
\* No invocation has failed at another step than the restore.
NoneFailedBeforeRestore ==
    \A p \in Procs : build[p].pc = "failed" => build[p].err = "restoreDockerignore"

\* C18: Build takes no lock.  Weight-separating invocations that follow each
\* other and succeed never reach a state where the backup has been overwritten
\* by pipeline-written content or where a run fails in the restore; with
\* invocations whose steps interleave such a state is reachable although every
\* build-engine call succeeds (C18_Witness).
C18_SerializedRunsKeepOriginal ==
    (Serialized /\ NoneFailedBeforeRestore) => (~BackupOverwritten /\ ~RestoreFailed)

\* Two invocations interleaved, every build-engine call succeeded, no
\* invocation has failed, and the user's exclusion file is in neither the
\* backup nor the exclusion file.
C18_Witness ==
    /\ ~Serialized
    /\ \A p \in Procs : build[p].pc \notin {"idle", "failed"}
    /\ \E p \in Procs : build[p].original.exists
    /\ EngineCallsSucceeded
    /\ BackupOverwritten
    /\ \A p \in Procs : dockerignore # build[p].original

\* The run has just decided to skip the weights-image build.
SkipsWeightsBuild(b) ==
    Separating(b) /\ b.pc = "writeRunner" /\ LastStep(b) = "LoadManifest"

\* C19: over any sequence of weight-separating runs, on varying trees and
\* image names, whenever a run skips the weights build the weights image it
\* reuses (imageName + "-weights") exists and was last built successfully
\* from a tree whose manifest equals the manifest of the current tree.
C19_CacheHitImageCurrent ==
    \A p \in Procs :
        LET b == build[p]
        IN  SkipsWeightsBuild(b)
                => /\ images[b.imageName].found
                   /\ Equal(b.weightsManifest, images[b.imageName])

C20_SchemaErrors == {"LoadFromData", "Validate"}

\* C20: the bundled schema file only ever holds a schema document that passed
\* parsing and validation: when Build fails because the schema cannot be
\* loaded or is invalid, no bundled schema file is on disk at its return.
C20_BundledSchemaValidated ==
    \A p \in Procs :
        LET b == build[p]
        IN  (b.pc = "failed" /\ b.err \in C20_SchemaErrors) => ~bundledSchema.exists

====
